---------------------------- MODULE Spec2Model ----------------------------
(***************************************************************************)
(* Bootstrap-4 grid plugins of djangocms-cascade                           *)
(* (cmsplugin_cascade/bootstrap4/container.py): container, row, column.    *)
(*                                                                         *)
(* Python strings are sequences of tokens: 'col-xs-6' is                   *)
(* <<"col", "-", "xs", "-", "6">> and '' is <<>>.  str.format, str.join    *)
(* and str.replace work on these sequences as they work on characters.     *)
(***************************************************************************)
EXTENDS Integers, Sequences, FiniteSets, TLC

VARIABLES
    container,      \* glossary of the BootstrapContainerPlugin instance
    row_ancestors,  \* plugin classes above the edited row, nearest first
    children,       \* number of that row's column children (get_num_children)
    ancestors,      \* plugin classes above the edited column, nearest first
    column,         \* glossary of the edited column
    ret             \* outcome of the last request: [op, arg, exc, value]

vars == <<container, row_ancestors, children, ancestors, column, ret>>

---------------------------------------------------------------------------
(* Bounds of the model *)

\* how many of the configured breakpoints the installation uses
NumBreakpoints == 3

---------------------------------------------------------------------------
(* Python string and list primitives *)

Range(s) == {s[i] : i \in DOMAIN s}

RECURSIVE Join(_, _)
\* sep.join(parts): parts is a list of strings
Join(sep, parts) ==
    IF parts = <<>> THEN <<>>
    ELSE IF Len(parts) = 1 THEN parts[1]
    ELSE parts[1] \o sep \o Join(sep, Tail(parts))

StartsWith(s, old) ==
    /\ Len(old) <= Len(s)
    /\ SubSeq(s, 1, Len(old)) = old

RECURSIVE Replace(_, _, _)
\* s.replace(old, new) for a non-empty old: leftmost non-overlapping matches
Replace(s, old, new) ==
    IF s = <<>> THEN <<>>
    ELSE IF StartsWith(s, old)
         THEN new \o Replace(SubSeq(s, Len(old) + 1, Len(s)), old, new)
         ELSE <<Head(s)>> \o Replace(Tail(s), old, new)

RECURSIVE FormatFrom(_, _, _)
\* tmpl.format(*args) from automatic index auto; "{0}", "{1}" are explicit
FormatFrom(tmpl, args, auto) ==
    IF tmpl = <<>> THEN <<>>
    ELSE LET t == Head(tmpl) IN
         IF t \in {"{}", "{:.0f}"}
         THEN args[auto] \o FormatFrom(Tail(tmpl), args, auto + 1)
         ELSE IF t = "{0}" THEN args[1] \o FormatFrom(Tail(tmpl), args, auto)
         ELSE IF t = "{1}" THEN args[2] \o FormatFrom(Tail(tmpl), args, auto)
         ELSE <<t>> \o FormatFrom(Tail(tmpl), args, auto)

Format(tmpl, args) == FormatFrom(tmpl, args, 1)

\* str(i) of an integer, one token
Str(i) == <<ToString(i)>>

\* dict.get(key, default)
Get(d, key, default) == IF key \in DOMAIN d THEN d[key] ELSE default

\* django.utils.html.conditional_escape on one token
Escape(t) ==
    CASE t = "&" -> "&amp;"
      [] t = "<" -> "&lt;"
      [] t = ">" -> "&gt;"
      [] OTHER -> t

\* format_html('{0}{1}', identifier, content)
FormatHtml(identifier, content) ==
    identifier \o [i \in DOMAIN content |-> Escape(content[i])]

\* ungettext_lazy(singular, plural, number)
Ungettext(singular, plural, number) == IF number = 1 THEN singular ELSE plural

---------------------------------------------------------------------------
(* Breakpoint registry (bootstrap4/grid.py and the application settings) *)

AllBreakpoints == <<"xs", "sm", "md", "lg", "xl">>

\* the Breakpoint enumeration, in order
Breakpoint == SubSeq(AllBreakpoints, 1, NumBreakpoints)

BreakpointNames == Range(Breakpoint)

BreakpointLabel(bp) ==
    CASE bp = "xs" -> <<"Portrait Phones">>
      [] bp = "sm" -> <<"Landscape Phones">>
      [] bp = "md" -> <<"Tablets">>
      [] bp = "lg" -> <<"Laptops">>
      [] bp = "xl" -> <<"Large Desktops">>

IndexOf(bp) == CHOOSE i \in DOMAIN AllBreakpoints : AllBreakpoints[i] = bp

\* app_settings.CMSPLUGIN_CASCADE['bootstrap4'][bounds]: Bound(min, max)
Bounds(which, bp) ==
    LET mins == <<(IF which = "fluid_bounds" THEN 320 ELSE 0), 576, 768, 992, 1200>>
        maxs == <<576, 768, 992, 1200, 1980>>
    IN  [min |-> mins[IndexOf(bp)], max |-> maxs[IndexOf(bp)]]

\* keys of fluid_bounds, in order
FluidBoundsKeys == Breakpoint

\* Breakpoint.range(first, last): from first up to, not including, last
BreakpointRange(first, last) ==
    LET lo == IndexOf(first)
        hi == IF last = "None" THEN Len(Breakpoint) ELSE IndexOf(last) - 1
    IN  SubSeq(Breakpoint, lo, hi)

\* list.index(x): first position of x
ListIndex(s, x) == CHOOSE i \in DOMAIN s : s[i] = x /\ \A j \in 1..(i - 1) : s[j] # x

\* the selections a ContainerBreakpointsWidget can submit: the checked
\* boxes, in the order of the widget's choices
RECURSIVE Sublists(_)
Sublists(s) ==
    IF s = <<>> THEN {<<>>}
    ELSE LET rest == Sublists(Tail(s))
         IN  rest \cup {<<Head(s)>> \o r : r \in rest}

Selections == Sublists(Breakpoint)

---------------------------------------------------------------------------
(* Plugin tree *)

\* issubclass(plugin_class, BootstrapPluginBase)
IsBootstrapPlugin(cls) == cls \in {"Container", "Row", "Column", "Jumbotron"}

\* issubclass(plugin_class, BootstrapContainerPlugin)
IsContainerPlugin(cls) == cls = "Container"

\* the places the edited column can be in
Ancestries ==
    { <<"Row", "Container">>,
      <<"Row">>,
      <<"Row", "Alien", "Container">>,
      <<>> }

\* the places the edited row can be in
RowAncestries ==
    { <<"Container">>,
      <<"Jumbotron", "Container">>,
      <<"Column", "Row", "Container">>,
      <<"Column", "Row">>,
      <<>> }

\* obj.get_complete_glossary(): the glossaries of the ancestors merged; the
\* only container of the model is the variable container
get_complete_glossary(chain) ==
    IF \E i \in DOMAIN chain : IsContainerPlugin(chain[i]) THEN container ELSE <<>>

\* CascadePluginBase.get_identifier: the base identifier is empty
BaseIdentifier == <<>>

Outcome(op, arg, exc, value) == [op |-> op, arg |-> arg, exc |-> exc, value |-> value]

---------------------------------------------------------------------------
(* BootstrapContainerForm and BootstrapContainerPlugin *)

\* clean_glossary without the length check
clean_glossary_NoCheck(glossary) == [exc |-> "", value |-> glossary]

\* BootstrapContainerForm.clean_glossary
clean_glossary(glossary) ==
    IF Len(glossary.breakpoints) = 0
    THEN [exc |-> "ValidationError", value |-> <<>>]
    ELSE [exc |-> "", value |-> glossary]

\* the list iterated at line 82: the variable breakpoints after line 81
ContainerIdentifierBreakpoints(obj) == FluidBoundsKeys

\* BootstrapContainerPlugin.get_identifier
ContainerGetIdentifierValue(obj) ==
    LET identifier == BaseIdentifier
        breakpoints == obj.breakpoints
        content0 == IF obj.fluid THEN <<"(fluid) ">> ELSE <<>>
        listed == ContainerIdentifierBreakpoints(obj)
        devices == Join(<<", ">>, [i \in DOMAIN listed |-> BreakpointLabel(listed[i])])
        content == IF breakpoints # <<>>
                   THEN Format(<<"{0}", "for ", "{1}">>, <<content0, devices>>)
                   ELSE content0
    IN  FormatHtml(identifier, content)

\* a container form is submitted: clean_glossary, then save_model
ContainerSubmit(sel, fluid) ==
    LET submitted == [breakpoints |-> sel, fluid |-> fluid]
        cleaned == clean_glossary(submitted)
    IN  /\ container' = IF cleaned.exc = "" THEN cleaned.value ELSE container
        /\ ret' = Outcome("container.clean_glossary", submitted, cleaned.exc, cleaned.value)
        /\ UNCHANGED <<row_ancestors, children, ancestors, column>>

ContainerGetIdentifier ==
    /\ ret' = Outcome("container.get_identifier", container, "",
                      ContainerGetIdentifierValue(container))
    /\ UNCHANGED <<container, row_ancestors, children, ancestors, column>>

---------------------------------------------------------------------------
(* BootstrapRowForm and BootstrapRowPlugin *)

ROW_NUM_COLUMNS == <<1, 2, 3, 4, 6, 12>>

\* the child count taken for the width
RowColumnWidth_Count(wanted_children) == wanted_children

\* line 138
RowColumnWidth(wanted_children) == 12 \div wanted_children

\* lines 139-141
RowChildGlossary(narrowest, column_width) ==
    Format(<<"{0}", "-", "column-width">>, <<<<narrowest>>>>)
        :> Format(<<"col", "-", "{0}", "-", "{1}">>, <<<<narrowest>>, Str(column_width)>>)

\* the column width handed over as the child count
RowWantedChildren_Width(num_children) == 12 \div num_children

\* the child count handed to extend_children at line 142
RowWantedChildren(num_children) == num_children

\* CascadePluginBase.extend_children: children are added, each with
\* child_glossary, or removed until the row has wanted_children of them
extend_children(current_children, wanted_children, child_glossary) ==
    [num_children |-> wanted_children,
     created |-> IF wanted_children > current_children
                 THEN [i \in 1..(wanted_children - current_children) |-> child_glossary]
                 ELSE <<>>]

\* BootstrapRowPlugin.save_model
RowSaveModel(num_children) ==
    LET wanted_children == RowWantedChildren(num_children)
        parent_glossary == get_complete_glossary(row_ancestors)
    IN  /\ IF "breakpoints" \notin DOMAIN parent_glossary
           THEN /\ ret' = Outcome("row.save_model", num_children, "KeyError", <<>>)
                /\ UNCHANGED children
           ELSE IF parent_glossary.breakpoints = <<>>
           THEN /\ ret' = Outcome("row.save_model", num_children, "IndexError", <<>>)
                /\ UNCHANGED children
           ELSE LET narrowest == parent_glossary.breakpoints[1]
                    column_width == RowColumnWidth(wanted_children)
                    child_glossary == RowChildGlossary(narrowest, column_width)
                    extended == extend_children(children, wanted_children, child_glossary)
                IN  /\ children' = extended.num_children
                    /\ ret' = Outcome("row.save_model", num_children, "",
                                      [child_glossary |-> child_glossary,
                                       before |-> children,
                                       created |-> extended.created])
        /\ UNCHANGED <<container, row_ancestors, ancestors, column>>

---------------------------------------------------------------------------
(* BootstrapColumnPlugin.get_form *)

\* units[i], line 177
Units(i) == Format(Ungettext(<<"{}", " unit">>, <<"{}", " units">>, i), <<Str(i)>>)

\* the ascending range(lo, hi + 1) as a list
IntRange(lo, hi) == [i \in 1..(hi - lo + 1) |-> lo + i - 1]

\* lines 179-182: the next selected breakpoint, None after the last one
NextBreakpoint(breakpoints, bp) ==
    LET n == ListIndex(breakpoints, bp) + 1
    IN  IF n \in DOMAIN breakpoints THEN breakpoints[n] ELSE "None"

\* choose_help_text with the bound of the breakpoint itself in the first case
choose_help_text_OwnBound(phrases, fluid, breakpoints, first, last) ==
    LET bounds == IF fluid THEN "fluid_bounds" ELSE "default_bounds"
    IN  IF last # "None"
        THEN Format(phrases[1], <<Str(Bounds(bounds, first).max)>>)
        ELSE IF Len(breakpoints) > 1
        THEN Format(phrases[2], <<Str(Bounds(bounds, first).min)>>)
        ELSE phrases[3]

\* choose_help_text, lines 157-165; phrases are templates
choose_help_text(phrases, fluid, breakpoints, first, last) ==
    LET bounds == IF fluid THEN "fluid_bounds" ELSE "default_bounds"
    IN  IF last # "None"
        THEN Format(phrases[1], <<Str(Bounds(bounds, last).max)>>)
        ELSE IF Len(breakpoints) > 1
        THEN Format(phrases[2], <<Str(Bounds(bounds, first).min)>>)
        ELSE phrases[3]

\* the three phrases of one category: narrower than, wider than, all devices
Phrases(what, whatAll) ==
    << <<what, " devices narrower than ", "{:.0f}", " pixels.">>,
       <<what, " devices wider than ", "{:.0f}", " pixels.">>,
       <<whatAll, " all devices.">> >>

\* line 185
Devices(first, last) ==
    LET r == BreakpointRange(first, last)
    IN  Join(<<", ">>, [i \in DOMAIN r |-> BreakpointLabel(r[i])])

GlossaryField(widget, choices, label, name, initial, help_text) ==
    [widget |-> widget, choices |-> choices, label |-> label, name |-> name,
     initial |-> initial, help_text |-> help_text]

\* lines 187-194: the width choices of a breakpoint without "inherit"
WidthChoices(bp) ==
    IF bp = "xs"
    THEN <<<< <<"col">>, <<"Flex column">> >>>>
         \o [i \in 1..12 |-> << Format(<<"col", "-", "{}">>, <<Str(i)>>),
                                Format(<<"{}", " fixed column">>, <<Units(i)>>) >>]
         \o <<<< <<"col", "-", "auto">>, <<"Auto column">> >>>>
    ELSE <<<< Format(<<"col", "-", "{}">>, <<<<bp>>>>), <<"Flex column">> >>>>
         \o [i \in 1..12 |-> << Format(<<"col", "-", "{}", "-", "{}">>, <<<<bp>>, Str(i)>>),
                                Format(<<"{}", " fixed column">>, <<Units(i)>>) >>]
         \o <<<< Format(<<"col", "-", "{}", "-", "auto">>, <<<<bp>>>>), <<"Auto column">> >>>>

\* line 201
FirstWidthInitial(bp) == Format(<<"col", "-", "{}", "-", "12">>, <<<<bp>>>>)

InheritChoice == << <<>>, <<"Inherit from above">> >>

\* lines 195-221
WidthField(breakpoints, fluid, bp) ==
    LET last == NextBreakpoint(breakpoints, bp)
        first == bp
        devices == Devices(first, last)
    IN  IF ListIndex(breakpoints, bp) = 1
        THEN GlossaryField("Select", WidthChoices(bp),
                 Format(<<"Column width for ", "{}">>, <<devices>>),
                 Format(<<"{}", "-", "column-width">>, <<<<bp>>>>),
                 FirstWidthInitial(bp),
                 choose_help_text(Phrases("Column width for", "Column width for"), fluid, breakpoints, first, last))
        ELSE GlossaryField("Select", <<InheritChoice>> \o WidthChoices(bp),
                 Format(<<"Column width for ", "{}">>, <<devices>>),
                 Format(<<"{}", "-", "column-width">>, <<<<bp>>>>),
                 <<>>,
                 choose_help_text(Phrases("Override column width for", "Override column width for"), fluid, breakpoints, first, last))

\* the offset choices with "inherit" at every breakpoint
OffsetChoices_AlwaysInherit(breakpoints, bp) ==
    <<InheritChoice>> \o
    [k \in 1..13 |->
        IF bp = "xs"
        THEN << Format(<<"offset", "-", "{}">>, <<Str(k - 1)>>), Units(k - 1) >>
        ELSE << Format(<<"offset", "-", "{}", "-", "{}">>, <<<<bp>>, Str(k - 1)>>), Units(k - 1) >>]

\* lines 224-233
OffsetChoices(breakpoints, bp) ==
    LET isFirst == ListIndex(breakpoints, bp) = 1
        head == IF isFirst THEN << <<>>, <<"No offset">> >> ELSE InheritChoice
        offset_range == IF isFirst THEN IntRange(1, 12) ELSE IntRange(0, 12)
    IN  <<head>> \o
        [k \in DOMAIN offset_range |->
            LET i == offset_range[k]
            IN  IF bp = "xs"
                THEN << Format(<<"offset", "-", "{}">>, <<Str(i)>>), Units(i) >>
                ELSE << Format(<<"offset", "-", "{}", "-", "{}">>, <<<<bp>>, Str(i)>>), Units(i) >>]

\* lines 234-244
OffsetField(breakpoints, fluid, bp) ==
    LET last == NextBreakpoint(breakpoints, bp)
        first == bp
    IN  GlossaryField("Select", OffsetChoices(breakpoints, bp),
            Format(<<"Offset for ", "{}">>, <<Devices(first, last)>>),
            Format(<<"{}", "-", "column-offset">>, <<<<bp>>>>),
            <<>>,
            choose_help_text(Phrases("Offset width for", "Offset width for"), fluid, breakpoints, first, last))

\* lines 247-262
OrderingField(breakpoints, fluid, bp) ==
    LET last == NextBreakpoint(breakpoints, bp)
        first == bp
        choices == <<<< <<>>, <<"No reordering">> >>>> \o
            [i \in 1..12 |->
                IF bp = "xs"
                THEN << Format(<<"order", "-", "{}">>, <<Str(i)>>),
                        Format(<<"Reorder by ", "{}">>, <<Units(i)>>) >>
                ELSE << Format(<<"order", "-", "{}", "-", "{}">>, <<<<bp>>, Str(i)>>),
                        Format(<<"Reorder by ", "{}">>, <<Units(i)>>) >>]
    IN  GlossaryField("Select", choices,
            Format(<<"Reordering for ", "{}">>, <<Devices(first, last)>>),
            Format(<<"{}", "-", "column-ordering">>, <<<<bp>>>>),
            <<>>,
            choose_help_text(Phrases("Reordering for", "Reordering for"), fluid, breakpoints, first, last))

\* lines 265-277
UtilsField(breakpoints, fluid, bp) ==
    LET last == NextBreakpoint(breakpoints, bp)
        first == bp
        choices == << << <<>>, <<"Default">> >>,
                      << Format(<<"visible", "-", "{}">>, <<<<bp>>>>), <<"Visible">> >>,
                      << Format(<<"hidden", "-", "{}">>, <<<<bp>>>>), <<"Hidden">> >> >>
    IN  GlossaryField("RadioSelect", choices,
            Format(<<"Responsive utilities for ", "{}">>, <<Devices(first, last)>>),
            Format(<<"{}", "-", "responsive-utils">>, <<<<bp>>>>),
            <<>>,
            choose_help_text(Phrases("Utility classes for showing and hiding content by",
                                     "Utility classes for showing and hiding content for"),
                             fluid, breakpoints, first, last))

RECURSIVE GeneratedFields(_, _, _)
\* the loop of lines 178-277 over the breakpoints from position k on
GeneratedFields(breakpoints, fluid, k) ==
    IF k > Len(breakpoints) THEN <<>>
    ELSE LET bp == breakpoints[k]
         IN  << WidthField(breakpoints, fluid, bp), OffsetField(breakpoints, fluid, bp),
                OrderingField(breakpoints, fluid, bp), UtilsField(breakpoints, fluid, bp) >>
             \o GeneratedFields(breakpoints, fluid, k + 1)

\* the fields left grouped by breakpoint
Reorder_Grouped(glossary_fields, n) == glossary_fields

\* lines 278-282: for i in range(len // n), for j in range(n): [i + len // n * j]
Reorder(glossary_fields, n) ==
    LET per == Len(glossary_fields) \div n
    IN  [p \in 1..(per * n) |->
            LET i == (p - 1) \div n
                j == (p - 1) % n
            IN  glossary_fields[(i + per * j) + 1]]

\* lines 167-173: the walk up the ancestry
RECURSIVE FindContainer(_)
FindContainer(chain) ==
    IF chain = <<>> THEN "None"
    ELSE IF ~IsBootstrapPlugin(Head(chain)) THEN "ImproperlyConfigured"
    ELSE IF IsContainerPlugin(Head(chain)) THEN "Container"
    ELSE FindContainer(Tail(chain))

\* BootstrapColumnPlugin.get_form: [exc, value], value the glossary_fields
get_form(chain) ==
    LET found == FindContainer(chain)
    IN  IF found = "ImproperlyConfigured"
        THEN [exc |-> "ImproperlyConfigured", value |-> <<>>]
        ELSE IF found = "None"
        THEN [exc |-> "AttributeError", value |-> <<>>]
        ELSE IF container.breakpoints = <<>>
        THEN [exc |-> "ZeroDivisionError", value |-> <<>>]
        ELSE [exc |-> "",
              value |-> CHOOSE fields \in
                          {Reorder(glossary_fields, Len(container.breakpoints)) :
                              glossary_fields \in
                                  {GeneratedFields(container.breakpoints, container.fluid, 1)}} :
                          TRUE]

ColumnGetForm ==
    /\ \E r \in {get_form(ancestors)} :
          ret' = Outcome("column.get_form", ancestors, r.exc, r.value)
    /\ UNCHANGED <<container, row_ancestors, children, ancestors, column>>

---------------------------------------------------------------------------
(* BootstrapColumnPlugin: saving and get_identifier *)

\* the values an editor picks in the model: the default and the widths of
\* 4 and 6 units
Pickable(v) ==
    \/ v = <<>>
    \/ v[1] = "col" /\ v[Len(v)] \in {"4", "6"}

FieldValues(f) == {f.choices[i][1] : i \in DOMAIN f.choices}

\* the pickable values of a field, in the order of its choices
PickList(f) == SelectSeq([i \in DOMAIN f.choices |-> f.choices[i][1]], Pickable)

IsWidthField(f) == f.name[Len(f.name)] = "column-width"

\* the column form is saved: the glossary holds one value per field; the
\* editor picks the widths and leaves the other fields at their default
ColumnSave ==
    /\ \E form \in {get_form(ancestors)} :
        /\ form.exc = ""
        /\ \E widthFields \in {SelectSeq(form.value, IsWidthField)} :
           \E lists \in {[i \in DOMAIN widthFields |-> PickList(widthFields[i])]} :
           \E pick \in [DOMAIN widthFields -> 1..3] :
              /\ \A i \in DOMAIN widthFields : pick[i] <= Len(lists[i])
              /\ \E glossary \in {[n \in {form.value[i].name : i \in DOMAIN form.value} |->
                         IF \E i \in DOMAIN widthFields : widthFields[i].name = n
                         THEN LET i == CHOOSE i \in DOMAIN widthFields : widthFields[i].name = n
                              IN  lists[i][pick[i]]
                         ELSE <<>>]} :
                     /\ column' = glossary
                     /\ ret' = Outcome("column.save_model", <<>>, "", glossary)
    /\ UNCHANGED <<container, row_ancestors, children, ancestors>>

\* line 301
ColumnWidthOf(obj_glossary, bp) ==
    Replace(Get(obj_glossary, Format(<<"{0}", "-", "column-width">>, <<<<bp>>>>), <<>>),
            Format(<<"col", "-", "{0}", "-">>, <<<<bp>>>>), <<>>)

RECURSIVE ColumnWidths(_, _)
\* lines 299-304
ColumnWidths(obj_glossary, breakpoints) ==
    IF breakpoints = <<>> THEN <<>>
    ELSE LET width == ColumnWidthOf(obj_glossary, Head(breakpoints))
         IN  (IF width # <<>> THEN <<width>> ELSE <<>>)
             \o ColumnWidths(obj_glossary, Tail(breakpoints))

\* lines 305-311
ColumnContent(widths) ==
    IF Len(widths) > 1
    THEN Format(<<"widths: ", "{0}", " units">>, <<Join(<<" / ">>, widths)>>)
    ELSE IF Len(widths) = 1
    THEN LET width == widths[1]
             \* the number handed to ungettext_lazy is the string width
             number == IF width = <<"1">> THEN 1 ELSE 0
         IN  Format(Ungettext(<<"default width: ", "{0}", " unit">>,
                              <<"default width: ", "{0}", " units">>, number),
                    <<width>>)
    ELSE <<"unknown width">>

\* BootstrapColumnPlugin.get_identifier
ColumnGetIdentifierValue(obj_glossary, chain) ==
    LET identifier == BaseIdentifier
        glossary == get_complete_glossary(chain)
        breakpoints == IF "breakpoints" \in DOMAIN glossary THEN glossary.breakpoints ELSE <<>>
    IN  FormatHtml(identifier, ColumnContent(ColumnWidths(obj_glossary, breakpoints)))

ColumnGetIdentifier ==
    /\ ret' = Outcome("column.get_identifier", column, "",
                      ColumnGetIdentifierValue(column, ancestors))
    /\ UNCHANGED <<container, row_ancestors, children, ancestors, column>>

---------------------------------------------------------------------------
(* The host moves the edited plugins to another place of the plugin tree *)

MovePlugin(chain) ==
    /\ ancestors # chain
    /\ ancestors' = chain
    /\ ret' = Outcome("move_plugin", chain, "", <<>>)
    /\ UNCHANGED <<container, row_ancestors, children, column>>

MoveRow(chain) ==
    /\ row_ancestors # chain
    /\ row_ancestors' = chain
    /\ ret' = Outcome("move_plugin", chain, "", <<>>)
    /\ UNCHANGED <<container, children, ancestors, column>>

---------------------------------------------------------------------------
(* Specifications *)

Init ==
    /\ container = [breakpoints |-> FluidBoundsKeys, fluid |-> FALSE]
    /\ row_ancestors = <<"Container">>
    /\ children = 0
    /\ ancestors = <<"Row", "Container">>
    /\ column = <<>>
    /\ ret = Outcome("init", <<>>, "", <<>>)

\* requests on the container and the row
NextGrid ==
    \/ \E sel \in Selections, fluid \in BOOLEAN : ContainerSubmit(sel, fluid)
    \/ ContainerGetIdentifier
    \/ \E i \in DOMAIN ROW_NUM_COLUMNS : RowSaveModel(ROW_NUM_COLUMNS[i])
    \/ \E chain \in RowAncestries : MoveRow(chain)

\* requests on the container and the column
NextColumn ==
    \/ \E sel \in Selections, fluid \in BOOLEAN : ContainerSubmit(sel, fluid)
    \/ ColumnGetForm
    \/ ColumnSave
    \/ ColumnGetIdentifier
    \/ \E chain \in Ancestries : MovePlugin(chain)

Next == NextGrid \/ NextColumn

SpecGrid == Init /\ [][NextGrid]_vars

SpecColumn == Init /\ [][NextColumn]_vars

Spec == Init /\ [][Next]_vars

---------------------------------------------------------------------------
(* Properties *)

IsResult(op) == ret.op = op /\ ret.exc = ""

\* the label of breakpoint bp occurs in the identifier text
Lists(text, bp) == \E i \in DOMAIN text : <<text[i]>> = BreakpointLabel(bp)

\* C1: the identifier of a container with a non-empty breakpoint selection
\* lists the label of every selected breakpoint and of no other breakpoint.
C1_IdentifierListsSelection ==
    (IsResult("container.get_identifier") /\ ret.arg.breakpoints # <<>>)
        => \A bp \in BreakpointNames :
              Lists(ret.value, bp) <=> bp \in Range(ret.arg.breakpoints)

\* a chain of ancestors in which the walk meets no container before it meets
\* a plugin that is no Bootstrap plugin or the top of the tree
NoValidContainer(chain) ==
    \A i \in DOMAIN chain :
        chain[i] = "Container" => \E j \in 1..(i - 1) : chain[j] = "Alien"

\* C2: get_form of a column without a valid container ancestor ends in
\* ImproperlyConfigured, whether the walk reaches the top of the tree or an
\* ancestor that is no Bootstrap plugin.
C2_BrokenAncestryIsImproperlyConfigured ==
    (ret.op = "column.get_form" /\ NoValidContainer(ret.arg))
        => ret.exc = "ImproperlyConfigured"

RECURSIVE UnitNumbers(_, _)
\* in breakpoint order, the unit number of every non-empty stored width
UnitNumbers(glossary, breakpoints) ==
    IF breakpoints = <<>> THEN <<>>
    ELSE LET v == Get(glossary, <<Head(breakpoints), "-", "column-width">>, <<>>)
         IN  (IF v # <<>> THEN << <<v[Len(v)]>> >> ELSE <<>>)
             \o UnitNumbers(glossary, Tail(breakpoints))

\* C3: the identifier of a column saved through its own form lists, in
\* breakpoint order, the bare unit number of every breakpoint with a
\* non-empty width, joined by " / ", and omits the inherited ones
\* (xs = 6 units, sm = inherit, md = 4 units reads "6 / 4").
C3_IdentifierListsUnitNumbers ==
    (IsResult("column.get_identifier") /\ ancestors = <<"Row", "Container">>)
        => LET numbers == UnitNumbers(ret.arg, container.breakpoints)
           IN  /\ Len(numbers) > 1 =>
                     ret.value = <<"widths: ">> \o Join(<<" / ">>, numbers) \o <<" units">>
               /\ Len(numbers) = 1 =>
                     /\ Len(ret.value) = 3
                     /\ ret.value[1] = "default width: "
                     /\ ret.value[2] = numbers[1][1]

C5_ChildGlossaryIsNarrowestWidth ==
    IsResult("row.save_model")
        => LET narrowest == container.breakpoints[1]
               key == <<narrowest, "-", "column-width">>
               handed == {ret.value.child_glossary} \cup Range(ret.value.created)
           IN  \A g \in handed :
                  /\ DOMAIN g = {key}
                  /\ g[key] = <<"col", "-", narrowest, "-", ToString(12 \div ret.arg)>>

\* a save of 4 columns under a container whose narrowest breakpoint is sm
C5_Witness ==
    /\ IsResult("row.save_model")
    /\ ret.arg = 4
    /\ container.breakpoints[1] = "sm"
    /\ Len(ret.value.created) = 4
    /\ ret.value.created[4][<<"sm", "-", "column-width">>] = <<"col", "-", "sm", "-", "3">>

OffersInherit(f) == \E i \in DOMAIN f.choices : f.choices[i][2] = <<"Inherit from above">>

FieldNamed(fields, name) == {i \in DOMAIN fields : fields[i].name = name}

\* C6: the width and the offset field of the first selected breakpoint offer
\* no "Inherit from above"; those of every later breakpoint offer it as the
\* first choice, with the empty value.
C6_InheritOnlyAfterFirst ==
    IsResult("column.get_form")
        => \A k \in DOMAIN container.breakpoints :
           \A cat \in {"column-width", "column-offset"} :
              LET at == FieldNamed(ret.value, <<container.breakpoints[k], "-", cat>>)
              IN  /\ Cardinality(at) = 1
                  /\ \A i \in at :
                        IF k = 1
                        THEN ~OffersInherit(ret.value[i])
                        ELSE ret.value[i].choices[1] = << <<>>, <<"Inherit from above">> >>

C6_Witness ==
    /\ IsResult("column.get_form")
    /\ container.breakpoints = <<"sm", "md">>
    /\ \E i \in DOMAIN ret.value :
          /\ ret.value[i].name = <<"md", "-", "column-offset">>
          /\ OffersInherit(ret.value[i])

\* C7: clean_glossary raises ValidationError exactly for an empty
\* breakpoint selection and otherwise returns the submitted glossary
\* unchanged; the stored container never has an empty selection.
C7_EmptySelectionRejected ==
    /\ container.breakpoints # <<>>
    /\ ret.op = "container.clean_glossary"
          => /\ ret.exc = "ValidationError" <=> ret.arg.breakpoints = <<>>
             /\ ret.exc \in {"", "ValidationError"}
             /\ ret.exc = "" => ret.value = ret.arg /\ container = ret.arg

C7_Witness ==
    /\ ret.op = "container.clean_glossary"
    /\ ret.arg.breakpoints = <<>>
    /\ ret.exc = "ValidationError"

Categories == <<"column-width", "column-offset", "column-ordering", "responsive-utils">>

\* C8: for k selected breakpoints the form has 4k fields, each generated
\* field once: the k width fields in breakpoint order, then the k offset
\* fields, the k ordering fields and the k visibility fields.
C8_FieldsOrderedByCategory ==
    IsResult("column.get_form")
        => LET k == Len(container.breakpoints)
           IN  /\ Len(ret.value) = 4 * k
               /\ \A c \in 1..4 : \A j \in 1..k :
                     ret.value[(c - 1) * k + j].name
                         = <<container.breakpoints[j], "-", Categories[c]>>
               /\ \A generated \in {GeneratedFields(container.breakpoints, container.fluid, 1)} :
                     /\ Len(generated) = 4 * k
                     /\ \A c \in 1..4 : \A j \in 1..k :
                           ret.value[(c - 1) * k + j] = generated[4 * (j - 1) + c]

C8_Witness ==
    /\ IsResult("column.get_form")
    /\ Len(container.breakpoints) = 3
    /\ ret.value[4].name = <<container.breakpoints[1], "-", "column-offset">>

\* C9: a breakpoint with a next selected breakpoint gets the "narrower
\* than" help text with the upper bound of that neighbour; the last of
\* several selected breakpoints gets the "wider than" text with its own
\* lower bound; a single selected breakpoint gets "all devices" in all of
\* its four fields.
C9_HelpTextByPosition ==
    IsResult("column.get_form")
        => LET bps == container.breakpoints
               k == Len(bps)
               which == IF container.fluid THEN "fluid_bounds" ELSE "default_bounds"
           IN  \A j \in 1..k : \A c \in 1..4 :
                  LET at == FieldNamed(ret.value, <<bps[j], "-", Categories[c]>>)
                  IN  /\ at # {}
                      /\ \A i \in at :
                         LET h == ret.value[i].help_text
                         IN  IF j < k
                             THEN /\ Len(h) = 4
                                  /\ h[2] = " devices narrower than "
                                  /\ h[3] = ToString(Bounds(which, bps[j + 1]).max)
                             ELSE IF k > 1
                             THEN /\ Len(h) = 4
                                  /\ h[2] = " devices wider than "
                                  /\ h[3] = ToString(Bounds(which, bps[j]).min)
                             ELSE /\ Len(h) = 2
                                  /\ h[2] = " all devices."

C9_Witness ==
    /\ IsResult("column.get_form")
    /\ container.breakpoints = <<"xs", "md">>
    /\ container.fluid
    /\ ret.value[1].help_text = <<"Column width for", " devices narrower than ", "992", " pixels.">>
    /\ ret.value[2].help_text = <<"Override column width for", " devices wider than ", "768", " pixels.">>

\* C10: the width a row save pre-seeds for the narrowest breakpoint, and
\* the initial value of the first breakpoint's width field, are choices of
\* the width field the column form offers for that breakpoint.
C10_SeededWidthIsOffered ==
    IsResult("row.save_model")
        => \A form \in {get_form(<<"Row">> \o row_ancestors)} :
              form.exc = ""
                 => /\ FirstWidthInitial(container.breakpoints[1]) \in FieldValues(form.value[1])
                    /\ \A key \in DOMAIN ret.value.child_glossary :
                          \E i \in DOMAIN form.value :
                             /\ form.value[i].name = key
                             /\ ret.value.child_glossary[key] \in FieldValues(form.value[i])

=============================================================================
